---- MODULE Spec2Model ----
(***************************************************************************)
(* Model of web_scraper_app.py: one Streamlit script run per click of      *)
(* "Scrape Website": validate the URL, fetch the page, parse it, and       *)
(* render one of five extraction views.                                    *)
(*                                                                         *)
(* Text is a sequence of one-character strings, so that startswith,        *)
(* endswith, slicing, strip and urlparse are computed as Python computes   *)
(* them.  The parsed page (soup) is the document-order sequence of its     *)
(* elements, which is what soup.find_all walks.                            *)
(***************************************************************************)
EXTENDS Integers, Sequences, FiniteSets, TLC

\* ------------------------------------------------------------------ bounds
MaxParas == 52      \* longest run of <p> elements in a generated page
MaxHeadings == 3    \* longest page drawn from the heading alphabet
MaxLinks == 2       \* longest page drawn from the anchor alphabet
MaxTables == 5      \* longest page drawn from the table alphabet
MaxImgs == 11       \* longest run of <img> elements in a generated page

\* ------------------------------------------------------ program constants
ParagraphCap == 50  \* paragraphs[:50]
TableCap == 3       \* tables[:3]
ImageCap == 9       \* images[:9]
CaptionCap == 50    \* alt[:50], len(alt) > 50
GridCols == 3       \* st.columns(3), cols[i%3]

\* ------------------------------------------------------------------- text
Min(S) == CHOOSE x \in S : \A y \in S : x <= y
Max(S) == CHOOSE x \in S : \A y \in S : y <= x
Range(s) == {s[i] : i \in 1..Len(s)}

\* s[:n]
Take(s, n) == SubSeq(s, 1, IF n < Len(s) THEN n ELSE Len(s))

\* s.startswith(p), s.endswith(p)
StartsWith(s, p) == Len(s) >= Len(p) /\ SubSeq(s, 1, Len(p)) = p
EndsWith(s, p) == Len(s) >= Len(p) /\ SubSeq(s, Len(s) - Len(p) + 1, Len(s)) = p

Whitespace == {" ", "\t", "\n"}

\* s.strip()
Strip(s) ==
    LET keep == {i \in 1..Len(s) : s[i] \notin Whitespace}
    IN  IF keep = {} THEN <<>> ELSE SubSeq(s, Min(keep), Max(keep))

LowerSeq == <<"a", "b", "c", "d", "e", "f", "g", "h", "i", "j", "k", "l", "m",
              "n", "o", "p", "q", "r", "s", "t", "u", "v", "w", "x", "y", "z">>
UpperSeq == <<"A", "B", "C", "D", "E", "F", "G", "H", "I", "J", "K", "L", "M",
              "N", "O", "P", "Q", "R", "S", "T", "U", "V", "W", "X", "Y", "Z">>
DigitSeq == <<"0", "1", "2", "3", "4", "5", "6", "7", "8", "9">>
Letters == Range(LowerSeq) \cup Range(UpperSeq)

\* c.lower(), s.lower()
LowerChar(c) ==
    IF c \in Range(UpperSeq)
    THEN LowerSeq[CHOOSE k \in 1..Len(UpperSeq) : UpperSeq[k] = c]
    ELSE c
Lower(s) == [i \in 1..Len(s) |-> LowerChar(s[i])]

\* int(c) for a decimal digit c
IntOfDigit(c) == (CHOOSE k \in 1..Len(DigitSeq) : DigitSeq[k] = c) - 1

\* ---------------------------------------------------------------- urlparse
\* urllib.parse.scheme_chars
SchemeChars == Letters \cup Range(DigitSeq) \cup {"+", "-", "."}

\* urllib.parse.urlparse(u), restricted to the two components the script reads.
\* raises = TRUE stands for ValueError("Invalid IPv6 URL").
urlparse(u) ==
    LET colons == {k \in 1..Len(u) : u[k] = ":"}
        i == IF colons = {} THEN 0 ELSE Min(colons)
        hasScheme == /\ i > 1
                     /\ u[1] \in Letters
                     /\ \A k \in 1..(i - 1) : u[k] \in SchemeChars
        scheme == IF hasScheme THEN Lower(SubSeq(u, 1, i - 1)) ELSE <<>>
        rest == IF hasScheme THEN SubSeq(u, i + 1, Len(u)) ELSE u
        hasNetloc == Len(rest) >= 2 /\ rest[1] = "/" /\ rest[2] = "/"
        delims == {k \in 3..Len(rest) : rest[k] \in {"/", "?", "#"}}
        delim == IF delims = {} THEN Len(rest) + 1 ELSE Min(delims)
        netloc == IF hasNetloc THEN SubSeq(rest, 3, delim - 1) ELSE <<>>
        open == "[" \in Range(netloc)
        close == "]" \in Range(netloc)
    IN  [raises |-> (open /\ ~close) \/ (close /\ ~open),
         scheme |-> scheme,
         netloc |-> netloc]

\* ------------------------------------------------------------ string values
PfxHttp == <<"h", "t", "t", "p">>
Slash == <<"/">>
SchemeSep == <<":", "/", "/">>
NoAltText == <<"N", "o", " ", "a", "l", "t", " ", "t", "e", "x", "t">>
Ellipsis == <<".", ".", ".">>

U_empty == <<>>
U_notaurl == <<"n", "o", "t", "a", "u", "r", "l">>
U_page == <<"h", "t", "t", "p", "s", ":", "/", "/", "e", "x", ".", "c", "o", "m", "/", "p", "a", "g", "e">>
U_root == <<"h", "t", "t", "p", "s", ":", "/", "/", "e", "x", ".", "c", "o", "m", "/">>
U_plain == <<"h", "t", "t", "p", ":", "/", "/", "e", "x", ".", "c", "o", "m">>
U_ftp == <<"f", "t", "p", ":", "/", "/", "e", "x", ".", "c", "o", "m">>
U_nohost == <<"h", "t", "t", "p", "s", ":", "/", "/", "/", "p">>
U_noscheme == <<"/", "/", "e", "x", ".", "c", "o", "m">>
U_bracket == <<"h", "t", "t", "p", ":", "/", "/", "[", "e", "x">>

\* what the user may type into st.text_input
Urls == {U_empty, U_notaurl, U_page, U_root, U_plain, U_ftp, U_nohost,
         U_noscheme, U_bracket}

H_same == <<"h", "t", "t", "p", "s", ":", "/", "/", "e", "x", ".", "c", "o", "m", "/", "a">>
H_same2 == <<"h", "t", "t", "p", ":", "/", "/", "e", "x", ".", "c", "o", "m", "/", "b">>
H_other == <<"h", "t", "t", "p", "s", ":", "/", "/", "o", "t", "h", "e", "r", ".", "o", "r", "g", "/">>
H_upper == <<"h", "t", "t", "p", "s", ":", "/", "/", "E", "X", ".", "c", "o", "m", "/">>
H_rooted == <<"/", "r", "e", "l">>
H_httpx == <<"h", "t", "t", "p", "x">>
H_bracket == <<"h", "t", "t", "p", ":", "/", "/", "[", "x">>

S_abs == <<"h", "t", "t", "p", "s", ":", "/", "/", "c", "d", "n", ".", "i", "o", "/", "i", ".", "p", "n", "g">>
S_rooted == <<"/", "a", ".", "p", "n", "g">>
S_bare == <<"b", ".", "p", "n", "g">>
R_rooted == <<"h", "t", "t", "p", "s", ":", "/", "/", "e", "x", ".", "c", "o", "m", "/", "a", ".", "p", "n", "g">>
R_bare == <<"h", "t", "t", "p", "s", ":", "/", "/", "e", "x", ".", "c", "o", "m", "/", "p", "a", "g", "e", "/", "b", ".", "p", "n", "g">>

\* --------------------------------------------------------- parsed elements
\* A bs4 Tag: its name, get_text(), its attribute dict, and (for a table) the
\* rows of cells its markup holds.
NoAttrs == [a \in {} |-> <<>>]
Tag(name, text, attrs, rows) ==
    [name |-> name, text |-> text, attrs |-> attrs, rows |-> rows]

T_p == <<"p">>
T_a == <<"a">>
T_img == <<"i", "m", "g">>
T_table == <<"t", "a", "b", "l", "e">>
T_h(k) == <<"h", DigitSeq[k + 1]>>
HeadingNames == {T_h(k) : k \in 1..6}

\* tag.get(attr, default)
Get(tag, attr, default) ==
    IF attr \in DOMAIN tag.attrs THEN tag.attrs[attr] ELSE default

\* soup.find_all(name) / soup.find_all([names]): document order
find_all(doc, names) == SelectSeq(doc, LAMBDA e : e.name \in names)
\* soup.find_all('a', href=True)
find_all_href(doc) ==
    SelectSeq(doc, LAMBDA e : e.name = T_a /\ "href" \in DOMAIN e.attrs)

\* ------------------------------------------------------------- page inputs
SeqsUpTo(S, n) == UNION {[1..k -> S] : k \in 0..n}

\* a two-letter text that differs for every position
Name(i) == <<LowerSeq[((i \div 26) % 26) + 1], LowerSeq[(i % 26) + 1]>>

BlankText(i) == IF i % 2 = 1 THEN <<>> ELSE <<" ", "\n">>
PaddedText(i) == IF i % 3 = 0 THEN <<" ">> \o Name(i) \o <<"\n">> ELSE Name(i)

\* pages of n paragraphs, those at the positions in B blank
ParaPage(n, B) ==
    [i \in 1..n |-> Tag(T_p, IF i \in B THEN BlankText(i) ELSE PaddedText(i),
                        NoAttrs, <<>>)]
ParaLens == (0..2) \cup ((MaxParas - 3)..MaxParas)
ParaBlanks == {1, 2, ParagraphCap, ParagraphCap + 1}
ParaPages == {ParaPage(n, B) : n \in ParaLens, B \in SUBSET ParaBlanks}

HeadingAlphabet ==
    {Tag(T_h(1), <<"T", "o", "p">>, NoAttrs, <<>>),
     Tag(T_h(3), <<>>, NoAttrs, <<>>),
     Tag(T_h(6), <<" ", "x", " ">>, NoAttrs, <<>>),
     Tag(T_p, <<"z">>, NoAttrs, <<>>)}
HeadingPages == SeqsUpTo(HeadingAlphabet, MaxHeadings)
\* more headings than any cap of the script
LongHeadingPage ==
    [i \in 1..(ParagraphCap + 2) |-> Tag(T_h((i % 6) + 1), Name(i), NoAttrs, <<>>)]

Anchor(href, text) == Tag(T_a, text, "href" :> href, <<>>)
AnchorAlphabet ==
    {Anchor(H_same, <<" ", "a", " ">>), Anchor(H_same2, <<"b">>),
     Anchor(H_other, <<"o">>), Anchor(H_upper, <<"u">>),
     Anchor(H_rooted, <<"r">>), Anchor(H_httpx, <<"x">>),
     Anchor(<<>>, <<"e">>), Anchor(H_bracket, <<"k">>),
     Tag(T_a, <<"n">>, NoAttrs, <<>>)}
LinkPages == SeqsUpTo(AnchorAlphabet, MaxLinks)

GoodTable == Tag(T_table, <<"1", "2">>, NoAttrs, << <<"1">>, <<"2">> >>)
BadTable == Tag(T_table, <<>>, NoAttrs, <<>>)
TablePages == SeqsUpTo({GoodTable, BadTable}, MaxTables)

LongAlt(n) == [k \in 1..n |-> LowerSeq[(k % 26) + 1]]
ImgSrc(i) == CASE i % 3 = 0 -> S_abs [] i % 3 = 1 -> S_rooted [] OTHER -> S_bare
ImgAlt(i) ==
    CASE i % 5 = 0 -> NoAttrs
      [] i % 5 = 1 -> "alt" :> LongAlt(CaptionCap)
      [] i % 5 = 2 -> "alt" :> LongAlt(CaptionCap + 1)
      [] i % 5 = 3 -> "alt" :> <<>>
      [] OTHER -> "alt" :> Name(i)
\* pages of n images, those at the positions in E with an empty or missing src
ImgPage(n, E) ==
    [i \in 1..n |->
        Tag(T_img, <<>>,
            IF i \in E
            THEN (IF i % 2 = 1 THEN ImgAlt(i) ELSE ("src" :> <<>>) @@ ImgAlt(i))
            ELSE ("src" :> ImgSrc(i)) @@ ImgAlt(i),
            <<>>)]
ImgLens == (0..2) \cup ((MaxImgs - 3)..MaxImgs)
ImgEmpties == {1, 2, ImageCap, ImageCap + 1}
ImgPages == {ImgPage(n, E) : n \in ImgLens, E \in SUBSET ImgEmpties}

MixedPage ==
    <<Tag(T_h(2), <<"m">>, NoAttrs, <<>>), Tag(T_p, <<" ", "q">>, NoAttrs, <<>>),
      Anchor(H_other, <<"o">>), GoodTable, ImgPage(3, {})[3],
      Tag(T_p, <<" ">>, NoAttrs, <<>>), Anchor(H_same, <<"s">>), ImgPage(1, {})[1]>>

\* the pages a server may answer with
Pages == ParaPages \cup HeadingPages \cup {LongHeadingPage} \cup LinkPages
         \cup TablePages \cup ImgPages \cup {MixedPage}

Choices == {"Paragraphs", "Headings", "Links", "Tables", "Images"}

\* ---------------------------------------------------------------- messages
WarnEnterUrl == "Please enter a URL"
ErrInvalidFormat == "Invalid URL format. Please include http:// or https://"
ErrInvalidUrl == "Invalid URL format"
ErrFetch == "Error fetching the website"
Success == "Successfully fetched website content!"
NoParagraphs == "No paragraphs found on this page."
NoHeadings == "No headings found on this page."
NoLinks == "No links found on this page."
NoExternal == "No external links found"
NoInternal == "No internal links found"
NoTables == "No tables found on this page."
NoImages == "No images found on this page."
Traceback == "ValueError: Invalid IPv6 URL"

\* ------------------------------------------------------------------- state
VARIABLES
    url,                \* st.text_input("Enter website URL:")
    extraction_choice,  \* st.sidebar radio
    pc,                 \* position of the script run
    html,               \* response.text
    soup,               \* BeautifulSoup(html, 'html.parser')
    msgs,               \* st.warning / st.error / st.success / st.info, in order
    found,              \* the counts of the "Found ..." line
    shown,              \* entries rendered into result_container, in order
    tab1,               \* the External Links dataframe
    tab2,               \* the Internal Links dataframe
    getCalls,           \* calls of requests.get in this run
    trace               \* the steps this run has taken, in order

vars == <<url, extraction_choice, pc, html, soup, msgs, found, shown, tab1, tab2,
          getCalls, trace>>

NoPage == <<>>

\* a rerun of the script starts from an empty page
Cleared ==
    /\ html' = NoPage
    /\ soup' = NoPage
    /\ msgs' = <<>>
    /\ found' = <<>>
    /\ shown' = <<>>
    /\ tab1' = <<>>
    /\ tab2' = <<>>
    /\ getCalls' = 0
    /\ trace' = <<>>

Init ==
    /\ url = <<>>
    /\ extraction_choice = "Paragraphs"
    /\ pc = "idle"
    /\ html = NoPage
    /\ soup = NoPage
    /\ msgs = <<>>
    /\ found = <<>>
    /\ shown = <<>>
    /\ tab1 = <<>>
    /\ tab2 = <<>>
    /\ getCalls = 0
    /\ trace = <<>>

\* the script is not running: it finished, stopped, or died of an exception
Resting == pc \in {"idle", "done", "stopped", "crashed"}

\* ------------------------------------------------------------ user actions
\* typing a URL reruns the script with the button not pressed
SetUrl ==
    /\ Resting
    /\ \E u \in Urls : url' = u
    /\ pc' = "idle"
    /\ Cleared
    /\ UNCHANGED extraction_choice

SetChoice ==
    /\ Resting
    /\ \E c \in Choices : extraction_choice' = c
    /\ pc' = "idle"
    /\ Cleared
    /\ UNCHANGED url

\* st.button("Scrape Website") returns True in the rerun it triggers
Click ==
    /\ Resting
    /\ pc' = "validate"
    /\ Cleared
    /\ UNCHANGED <<url, extraction_choice>>

\* ----------------------------------------------------------------- validate
\* all([result.scheme, result.netloc])
SchemeAndNetloc(result) == result.scheme # <<>> /\ result.netloc # <<>>

ValidateUrl ==
    /\ pc = "validate"
    /\ IF url = <<>>
       THEN /\ msgs' = Append(msgs, WarnEnterUrl)
            /\ pc' = "done"
            /\ trace' = Append(trace, "no_url")
       ELSE IF urlparse(url).raises
       THEN /\ msgs' = Append(msgs, ErrInvalidUrl)
            /\ pc' = "stopped"
            /\ trace' = Append(trace, "invalid")
       ELSE IF ~SchemeAndNetloc(urlparse(url))
       THEN /\ msgs' = Append(msgs, ErrInvalidFormat)
            /\ pc' = "stopped"
            /\ trace' = Append(trace, "invalid")
       ELSE /\ msgs' = msgs
            /\ pc' = "fetch"
            /\ trace' = Append(trace, "valid")
    /\ UNCHANGED <<url, extraction_choice, html, soup, found, shown, tab1, tab2,
                   getCalls>>

\* -------------------------------------------------------------------- fetch
S_http == <<"h", "t", "t", "p">>
S_https == <<"h", "t", "t", "p", "s">>

\* What requests.get(u, timeout=10) can do: raise a RequestException, or return
\* a response with a status and a body.  requests has adapters for http and
\* https only and raises InvalidSchema for any other scheme.
RequestsGet(u) ==
    IF urlparse(u).scheme \notin {S_http, S_https}
    THEN {[exc |-> "InvalidSchema", status |-> "none", text |-> NoPage]}
    ELSE {[exc |-> e, status |-> "none", text |-> NoPage] :
              e \in {"ConnectionError", "Timeout"}}
         \cup {[exc |-> "none", status |-> st, text |-> NoPage] :
                   st \in {"404", "500"}}
         \cup {[exc |-> "none", status |-> "200", text |-> page] : page \in Pages}

\* response.raise_for_status() raises HTTPError
RaisesForStatus(response) == response.status \in {"404", "500"}

\* a variant that reports the failure but forgets st.stop()
OnRequestException_NoStop ==
    /\ msgs' = Append(msgs, ErrFetch)
    /\ pc' = "parse"
    /\ trace' = trace \o <<"get", "get_failed">>
    /\ html' = html

\* except requests.RequestException: st.error(...); st.stop()
OnRequestException ==
    /\ msgs' = Append(msgs, ErrFetch)
    /\ pc' = "stopped"
    /\ trace' = trace \o <<"get", "get_failed">>
    /\ html' = html

Fetch ==
    /\ pc = "fetch"
    /\ getCalls' = getCalls + 1
    /\ \E response \in RequestsGet(url) :
          IF response.exc # "none" \/ RaisesForStatus(response)
          THEN OnRequestException
          ELSE /\ html' = response.text
               /\ msgs' = msgs
               /\ pc' = "parse"
               /\ trace' = trace \o <<"get", "get_ok">>
    /\ UNCHANGED <<url, extraction_choice, soup, found, shown, tab1, tab2>>

\* soup = BeautifulSoup(html, 'html.parser'); st.success(...)
Parse ==
    /\ pc = "parse"
    /\ soup' = html
    /\ msgs' = Append(msgs, Success)
    /\ pc' = "extract"
    /\ trace' = Append(trace, "parse")
    /\ UNCHANGED <<url, extraction_choice, html, found, shown, tab1, tab2, getCalls>>

\* --------------------------------------------------------------- paragraphs
\* a variant that cuts to the first 50 <p> elements before dropping blank ones
ParagraphList_CapFirst(doc) ==
    LET kept == SelectSeq(Take(find_all(doc, {T_p}), ParagraphCap),
                          LAMBDA p : Strip(p.text) # <<>>)
    IN  [i \in 1..Len(kept) |-> Strip(kept[i].text)]

\* [p.get_text().strip() for p in soup.find_all('p') if p.get_text().strip()]
ParagraphList(doc) ==
    LET kept == SelectSeq(find_all(doc, {T_p}), LAMBDA p : Strip(p.text) # <<>>)
    IN  [i \in 1..Len(kept) |-> Strip(kept[i].text)]

\* for i, para in enumerate(paragraphs[:50]): "Paragraph {i+1}:", para
ShownParagraphs(paragraphs) ==
    LET first == Take(paragraphs, ParagraphCap)
    IN  [i \in 1..Len(first) |-> [n |-> i, para |-> first[i]]]

ExtractParagraphs ==
    /\ pc = "extract"
    /\ extraction_choice = "Paragraphs"
    /\ LET paragraphs == ParagraphList(soup)
       IN  IF paragraphs # <<>>
           THEN shown' = ShownParagraphs(paragraphs) /\ msgs' = msgs
           ELSE shown' = shown /\ msgs' = Append(msgs, NoParagraphs)
    /\ pc' = "done"
    /\ trace' = Append(trace, "extract")
    /\ UNCHANGED <<url, extraction_choice, html, soup, found, tab1, tab2, getCalls>>

\* ----------------------------------------------------------------- headings
\* a variant that leaves out headings whose stripped text is empty
HeadingEntries_SkipEmpty(headings) ==
    LET kept == SelectSeq(headings, LAMBDA h : Strip(h.text) # <<>>)
    IN  [i \in 1..Len(kept) |->
            [level |-> IntOfDigit(kept[i].name[2]), text |-> Strip(kept[i].text)]]

\* for heading in headings: level = int(heading.name[1]); text stripped
HeadingEntries(headings) ==
    [i \in 1..Len(headings) |->
        [level |-> IntOfDigit(headings[i].name[2]),
         text |-> Strip(headings[i].text)]]

ExtractHeadings ==
    /\ pc = "extract"
    /\ extraction_choice = "Headings"
    /\ LET headings == find_all(soup, HeadingNames)
       IN  IF headings # <<>>
           THEN shown' = HeadingEntries(headings) /\ msgs' = msgs
           ELSE shown' = shown /\ msgs' = Append(msgs, NoHeadings)
    /\ pc' = "done"
    /\ trace' = Append(trace, "extract")
    /\ UNCHANGED <<url, extraction_choice, html, soup, found, tab1, tab2, getCalls>>

\* -------------------------------------------------------------------- links
LinkRow(link, type) ==
    [URL |-> link.attrs["href"], Text |-> Strip(link.text), Type |-> type]

\* the for loop over links; raised = TRUE when urlparse(href) raised ValueError,
\* which nothing catches
RECURSIVE LinkLoop(_, _, _)
LinkLoop(links, u, acc) ==
    IF links = <<>> THEN acc
    ELSE LET link == Head(links)
             href == link.attrs["href"]
         IN  IF ~StartsWith(href, PfxHttp)
             THEN LinkLoop(Tail(links), u, acc)
             ELSE IF urlparse(href).raises
             THEN [acc EXCEPT !.raised = TRUE]
             ELSE IF urlparse(href).netloc = urlparse(u).netloc
             THEN LinkLoop(Tail(links), u,
                      [acc EXCEPT !.internal = Append(@, LinkRow(link, "Internal"))])
             ELSE LinkLoop(Tail(links), u,
                      [acc EXCEPT !.external = Append(@, LinkRow(link, "External"))])

ClassifyLinks(links, u) ==
    LinkLoop(links, u, [raised |-> FALSE, internal |-> <<>>, external |-> <<>>])

ExtractLinks ==
    /\ pc = "extract"
    /\ extraction_choice = "Links"
    /\ LET links == find_all_href(soup)
           r == ClassifyLinks(links, url)
       IN  IF links = <<>>
           THEN /\ msgs' = Append(msgs, NoLinks)
                /\ pc' = "done"
                /\ UNCHANGED <<found, tab1, tab2>>
           ELSE IF r.raised
           THEN /\ msgs' = Append(msgs, Traceback)
                /\ pc' = "crashed"
                /\ UNCHANGED <<found, tab1, tab2>>
           ELSE /\ found' = <<Len(r.external), Len(r.internal)>>
                /\ tab1' = r.external
                /\ tab2' = r.internal
                /\ msgs' = msgs
                           \o (IF r.external = <<>> THEN <<NoExternal>> ELSE <<>>)
                           \o (IF r.internal = <<>> THEN <<NoInternal>> ELSE <<>>)
                /\ pc' = "done"
    /\ trace' = Append(trace, "extract")
    /\ UNCHANGED <<url, extraction_choice, html, soup, shown, getCalls>>

\* ------------------------------------------------------------------- tables
\* pd.read_html(str(table))[0]: raises when the markup holds no rows
read_html(table) == [raises |-> table.rows = <<>>, df |-> table.rows]

\* a variant whose try/except encloses the loop: the first failure ends it
TableSlots_AbortOnFailure(tables) ==
    LET first == Take(tables, TableCap)
        bad == {i \in 1..Len(first) : first[i].rows = <<>>}
        n == IF bad = {} THEN Len(first) ELSE Min(bad)
    IN  [i \in 1..n |->
            IF first[i].rows = <<>>
            THEN [n |-> i, ok |-> FALSE, df |-> <<>>]
            ELSE [n |-> i, ok |-> TRUE, df |-> first[i].rows]]

\* for i, table in enumerate(tables[:3]): try ... except: st.warning(...)
\* (a slot with ok = FALSE is the "Could not parse this table" warning)
TableSlots(tables) ==
    LET first == Take(tables, TableCap)
    IN  [i \in 1..Len(first) |->
            IF read_html(first[i]).raises
            THEN [n |-> i, ok |-> FALSE, df |-> <<>>]
            ELSE [n |-> i, ok |-> TRUE, df |-> read_html(first[i]).df]]

ExtractTables ==
    /\ pc = "extract"
    /\ extraction_choice = "Tables"
    /\ LET tables == find_all(soup, {T_table})
       IN  IF tables # <<>>
           THEN /\ found' = <<Len(tables)>>
                /\ shown' = TableSlots(tables)
                /\ msgs' = msgs
           ELSE /\ found' = found
                /\ shown' = shown
                /\ msgs' = Append(msgs, NoTables)
    /\ pc' = "done"
    /\ trace' = Append(trace, "extract")
    /\ UNCHANGED <<url, extraction_choice, html, soup, tab1, tab2, getCalls>>

\* ------------------------------------------------------------------- images
\* the relative-URL handling of the image loop
ResolveSrc(src, u) ==
    IF StartsWith(src, PfxHttp) THEN src
    ELSE IF StartsWith(src, Slash)
    THEN urlparse(u).scheme \o SchemeSep \o urlparse(u).netloc \o src
    ELSE u \o Slash \o (IF ~EndsWith(u, Slash) THEN Slash ELSE <<>>) \o src

\* a variant with the comparison off by one
Caption_OffByOne(alt) ==
    IF Len(alt) >= CaptionCap THEN Take(alt, CaptionCap) \o Ellipsis ELSE alt

\* alt[:50] + "..." if len(alt) > 50 else alt
Caption(alt) ==
    IF Len(alt) > CaptionCap THEN Take(alt, CaptionCap) \o Ellipsis ELSE alt

\* a variant that drops the imgs without a src first and cuts to 9 afterwards
ImageEntries_FilterFirst(images, u) ==
    LET kept == Take(SelectSeq(images, LAMBDA img : Get(img, "src", <<>>) # <<>>),
                     ImageCap)
    IN  [k \in 1..Len(kept) |->
            [col |-> (k - 1) % GridCols,
             src |-> ResolveSrc(kept[k].attrs["src"], u),
             caption |-> Caption(Get(kept[k], "alt", NoAltText))]]

\* for i, img in enumerate(images[:9]): ... if src: cols[i%3].image(src, caption)
ImageEntries(images, u) ==
    LET first == Take(images, ImageCap)
        kept == {i \in 1..Len(first) : Get(first[i], "src", <<>>) # <<>>}
        at(k) == CHOOSE i \in kept : Cardinality({j \in kept : j <= i}) = k
    IN  [k \in 1..Cardinality(kept) |->
            [col |-> (at(k) - 1) % GridCols,
             src |-> ResolveSrc(Get(first[at(k)], "src", <<>>), u),
             caption |-> Caption(Get(first[at(k)], "alt", NoAltText))]]

ExtractImages ==
    /\ pc = "extract"
    /\ extraction_choice = "Images"
    /\ LET images == find_all(soup, {T_img})
       IN  IF images # <<>>
           THEN /\ found' = <<Len(images)>>
                /\ shown' = ImageEntries(images, url)
                /\ msgs' = msgs
           ELSE /\ found' = found
                /\ shown' = shown
                /\ msgs' = Append(msgs, NoImages)
    /\ pc' = "done"
    /\ trace' = Append(trace, "extract")
    /\ UNCHANGED <<url, extraction_choice, html, soup, tab1, tab2, getCalls>>

\* ------------------------------------------------------------ specification
Next ==
    \/ SetUrl
    \/ SetChoice
    \/ Click
    \/ ValidateUrl
    \/ Fetch
    \/ Parse
    \/ ExtractParagraphs
    \/ ExtractHeadings
    \/ ExtractLinks
    \/ ExtractTables
    \/ ExtractImages

Spec == Init /\ [][Next]_vars

\* ================================================================== claims
\* the run extracted category c (its extraction step is the last step taken)
Extracted(c) ==
    /\ extraction_choice = c
    /\ trace # <<>>
    /\ trace[Len(trace)] = "extract"

\* the i-th smallest member of a set of positions
Nth(S, i) == CHOOSE j \in S : Cardinality({k \in S : k <= j}) = i
Smaller(a, b) == IF a < b THEN a ELSE b

\* positions of the page's img elements, and of those with a non-empty src
ImgPositions == {j \in 1..Len(soup) : soup[j].name = T_img}
HasSrc(j) == "src" \in DOMAIN soup[j].attrs /\ Len(soup[j].attrs["src"]) > 0
\* img positions among the first ImageCap img elements that have a non-empty src
ConsideredWithSrc ==
    {j \in ImgPositions :
        HasSrc(j) /\ Cardinality({k \in ImgPositions : k <= j}) <= ImageCap}
\* img positions with a non-empty src, whatever their rank
AllWithSrc == {j \in ImgPositions : HasSrc(j)}

\* C1 as the claim words it: one separating '/' between source URL and src
JoinOneSlash(u, src) == IF EndsWith(u, Slash) THEN u \o src ELSE u \o Slash \o src
ClaimedUrl(src, u) ==
    IF StartsWith(src, PfxHttp) THEN src
    ELSE IF StartsWith(src, Slash)
    THEN urlparse(u).scheme \o SchemeSep \o urlparse(u).netloc \o src
    ELSE JoinOneSlash(u, src)

\* C1 (as claimed): every displayed image's URL is src itself when src begins
\* with the scheme marker, scheme://host + src when src begins with '/', and
\* otherwise the source URL and src joined by exactly one '/'; so "/a.png" and
\* "b.png" under https://ex.com/page give https://ex.com/a.png and
\* https://ex.com/page/b.png.
C1_ImageUrlResolution ==
    Extracted("Images") =>
        /\ Len(shown) = Cardinality(ConsideredWithSrc)
        /\ \A k \in 1..Len(shown) :
              LET src == soup[Nth(ConsideredWithSrc, k)].attrs["src"]
              IN  /\ shown[k].src = ClaimedUrl(src, url)
                  /\ (url = U_page /\ src = S_rooted) => shown[k].src = R_rooted
                  /\ (url = U_page /\ src = S_bare) => shown[k].src = R_bare

\* C2 (as claimed): the Images result is the first 9 img elements that have a
\* non-empty src, in document order; empty-src imgs do not count against the
\* cap; never more than 9 entries.
C2_CapAfterFiltering ==
    Extracted("Images") =>
        /\ Len(shown) = Smaller(ImageCap, Cardinality(AllWithSrc))
        /\ Len(shown) <= ImageCap
        /\ \A k \in 1..Len(shown) :
              LET img == soup[Nth(AllWithSrc, k)]
              IN  /\ shown[k].src = ResolveSrc(img.attrs["src"], url)
                  /\ shown[k].caption = Caption(Get(img, "alt", NoAltText))

\* C2 (amended): the Images result is, in document order, those of the first 9
\* img elements that have a non-empty src; an img with an empty or missing src
\* is skipped but does count against the cap of 9; never more than 9 entries.
C2_CapBeforeFiltering ==
    Extracted("Images") =>
        /\ Len(shown) = Cardinality(ConsideredWithSrc)
        /\ Len(shown) <= ImageCap
        /\ \A k \in 1..Len(shown) :
              LET img == soup[Nth(ConsideredWithSrc, k)]
              IN  /\ shown[k].src = ResolveSrc(img.attrs["src"], url)
                  /\ shown[k].caption = Caption(Get(img, "alt", NoAltText))

\* C2 witness: the first img has no src, nine or more later imgs have one, and
\* eight entries are shown
C2_Witness ==
    /\ Extracted("Images")
    /\ ImgPositions # {}
    /\ ~HasSrc(Nth(ImgPositions, 1))
    /\ Cardinality(AllWithSrc) >= ImageCap
    /\ Len(shown) = ImageCap - 1

\* positions of the page's anchors that carry an href
HrefPositions ==
    {j \in 1..Len(soup) : soup[j].name = T_a /\ "href" \in DOMAIN soup[j].attrs}
Href(j) == soup[j].attrs["href"]
Absolute(j) == StartsWith(Href(j), PfxHttp)
SameHost(j) == urlparse(Href(j)).netloc = urlparse(url).netloc
InternalPositions == {j \in HrefPositions : Absolute(j) /\ SameHost(j)}
ExternalPositions == {j \in HrefPositions : Absolute(j) /\ ~SameHost(j)}
\* the run reached the Links branch, whether or not it finished it
LinksBranchRan == Extracted("Links")

\* C3 (as claimed): every anchor with an href is in the internal sequence iff
\* its href is absolute with the source URL's host, in the external sequence
\* iff absolute with another host, in neither when not absolute, never in
\* both, each sequence in encounter order.
C3_LinkClassification ==
    LinksBranchRan =>
        /\ Len(tab2) = Cardinality(InternalPositions)
        /\ Len(tab1) = Cardinality(ExternalPositions)
        /\ \A k \in 1..Len(tab2) :
              /\ tab2[k].URL = Href(Nth(InternalPositions, k))
              /\ tab2[k].Type = "Internal"
        /\ \A k \in 1..Len(tab1) :
              /\ tab1[k].URL = Href(Nth(ExternalPositions, k))
              /\ tab1[k].Type = "External"
        /\ {tab1[k].URL : k \in 1..Len(tab1)} \cap {tab2[k].URL : k \in 1..Len(tab2)} = {}

\* what the claim calls a URL with a recognized scheme and a non-empty host
RecognizedUrl(u) ==
    /\ ~urlparse(u).raises
    /\ urlparse(u).scheme \in {S_http, S_https}
    /\ urlparse(u).netloc # <<>>
InvalidUrlOutcome ==
    /\ msgs # <<>>
    /\ msgs[Len(msgs)] \in {WarnEnterUrl, ErrInvalidUrl, ErrInvalidFormat}
\* the run is over
RunEnded == trace # <<>> /\ pc \in {"done", "stopped", "crashed"}

\* C4 (as claimed): requests.get is called only for a URL with scheme http or
\* https and a non-empty host; for every other URL the run ends in InvalidUrl
\* with no fetch and no extraction.
C4_ValidationGate ==
    /\ getCalls > 0 => RecognizedUrl(url)
    /\ (RunEnded /\ ~RecognizedUrl(url)) =>
          /\ InvalidUrlOutcome
          /\ getCalls = 0
          /\ "get" \notin Range(trace)
          /\ "extract" \notin Range(trace)

Count(seq, x) == Cardinality({i \in 1..Len(seq) : seq[i] = x})
Before(a, b) ==
    \E i, j \in 1..Len(trace) : i < j /\ trace[i] = a /\ trace[j] = b

\* C5: a failed fetch ends the run in FetchFailure, reported to the user, with
\* no parse, no extraction and no success message after it; at most one fetch
\* per run; extraction only after a fetch that succeeded, and a fetch only
\* after validation that succeeded.
C5_AbortOnFetchFailure ==
    /\ getCalls <= 1
    /\ Count(trace, "get") = getCalls
    /\ "get_failed" \in Range(trace) =>
          /\ pc = "stopped"
          /\ trace[Len(trace)] = "get_failed"
          /\ msgs # <<>> /\ msgs[Len(msgs)] = ErrFetch
          /\ Success \notin Range(msgs)
          /\ "parse" \notin Range(trace)
          /\ "extract" \notin Range(trace)
          /\ shown = <<>> /\ tab1 = <<>> /\ tab2 = <<>> /\ found = <<>>
    /\ "extract" \in Range(trace) =>
          /\ Before("get_ok", "extract")
          /\ "get_failed" \notin Range(trace)
    /\ "parse" \in Range(trace) => Before("get_ok", "parse")
    /\ "get" \in Range(trace) => Before("valid", "get")
    /\ pc \in {"parse", "extract"} => "get_ok" \in Range(trace)

\* C5 witness: a run that stopped on a failed fetch of a valid http(s) URL
C5_Witness ==
    /\ pc = "stopped"
    /\ "get_failed" \in Range(trace)
    /\ RecognizedUrl(url)
    /\ msgs = <<ErrFetch>>

\* positions of the page's table elements; a table parses when it has rows
TablePositions == {j \in 1..Len(soup) : soup[j].name = T_table}
Parses(j) == Len(soup[j].rows) > 0

\* C6: n tables give exactly min(n, 3) slots, for the first tables in document
\* order; a table that fails to parse gives a failure marker in its own slot,
\* counts against the cap, and the other tables among the first 3 are still
\* parsed and emitted.
C6_TableSlots ==
    Extracted("Tables") =>
        /\ Len(shown) = Smaller(TableCap, Cardinality(TablePositions))
        /\ \A i \in 1..Len(shown) :
              LET j == Nth(TablePositions, i)
              IN  /\ shown[i].n = i
                  /\ shown[i].ok <=> Parses(j)
                  /\ Parses(j) => shown[i].df = soup[j].rows

\* C6 witness: five tables, the first malformed, three slots, the later ones parsed
C6_Witness ==
    /\ Extracted("Tables")
    /\ Cardinality(TablePositions) = 5
    /\ Len(shown) = 3
    /\ ~shown[1].ok /\ shown[2].ok /\ shown[3].ok

\* positions of the paragraphs whose text has a non-whitespace character
TextPositions ==
    {j \in 1..Len(soup) :
        soup[j].name = T_p /\ \E c \in Range(soup[j].text) : c \notin Whitespace}

\* C7: the Paragraphs result has at most 50 entries, each non-empty after
\* trimming, and they are exactly the first 50 (or fewer) paragraphs with
\* non-empty trimmed text, in document order: blank paragraphs are discarded
\* before the cap is applied.
C7_ParagraphResult ==
    Extracted("Paragraphs") =>
        /\ Len(shown) <= ParagraphCap
        /\ Len(shown) = Smaller(ParagraphCap, Cardinality(TextPositions))
        /\ \A i \in 1..Len(shown) :
              LET para == shown[i].para
              IN  /\ para # <<>>
                  /\ para[1] \notin Whitespace
                  /\ para[Len(para)] \notin Whitespace
                  /\ para = Strip(soup[Nth(TextPositions, i)].text)

\* C7 witness: more than 50 paragraphs with text, a blank one among the first
\* 50 elements, and 50 entries shown, the last one from beyond position 50
C7_Witness ==
    /\ Extracted("Paragraphs")
    /\ Cardinality(TextPositions) > ParagraphCap
    /\ \E j \in 1..ParagraphCap : soup[j].name = T_p /\ j \notin TextPositions
    /\ Len(shown) = ParagraphCap
    /\ Nth(TextPositions, ParagraphCap) > ParagraphCap

\* positions of the page's h1..h6 elements
HeadingPositions ==
    {j \in 1..Len(soup) :
        /\ Len(soup[j].name) = 2
        /\ soup[j].name[1] = "h"
        /\ soup[j].name[2] \in {"1", "2", "3", "4", "5", "6"}}

\* C8: the Headings result has exactly one entry per h1..h6 element, in
\* document order, uncapped, headings with empty trimmed text included, and
\* each entry's level is the numeric suffix of its tag name.
C8_HeadingResult ==
    Extracted("Headings") =>
        /\ Len(shown) = Cardinality(HeadingPositions)
        /\ \A i \in 1..Len(shown) :
              LET h == soup[Nth(HeadingPositions, i)]
              IN  /\ shown[i].level \in 1..6
                  /\ h.name = <<"h", DigitSeq[shown[i].level + 1]>>
                  /\ shown[i].text = Strip(h.text)

\* C8 witness: several headings shown, one of them with empty text
C8_Witness ==
    /\ Extracted("Headings")
    /\ Len(shown) >= 2
    /\ \E i \in 1..Len(shown) : shown[i].text = <<>> /\ shown[i].level = 3
    /\ \E i \in 1..Len(shown) : shown[i].level = 6

\* the notices that tell the user a category came out empty
EmptyNotices(c) ==
    CASE c = "Paragraphs" -> {NoParagraphs}
      [] c = "Headings" -> {NoHeadings}
      [] c = "Links" -> {NoLinks, NoExternal, NoInternal}
      [] c = "Tables" -> {NoTables}
      [] c = "Images" -> {NoImages}
\* the page has nothing for category c: no paragraph with text, no heading, no
\* absolute link, no table, no img with a non-empty src
NothingToExtract(c) ==
    CASE c = "Paragraphs" -> TextPositions = {}
      [] c = "Headings" -> HeadingPositions = {}
      [] c = "Links" -> \A j \in HrefPositions : ~Absolute(j)
      [] c = "Tables" -> TablePositions = {}
      [] c = "Images" -> AllWithSrc = {}

\* C9 (as claimed): after a successful fetch, whenever the selected category's
\* result is empty, an empty-result notice for that category is presented and
\* no error is raised.
C9_EmptyResultNotice ==
    (Extracted(extraction_choice) /\ NothingToExtract(extraction_choice)) =>
        /\ pc = "done"
        /\ shown = <<>> /\ tab1 = <<>> /\ tab2 = <<>>
        /\ Range(msgs) \cap EmptyNotices(extraction_choice) # {}

\* C10: a displayed image's caption is the placeholder when the img has no alt
\* attribute and the alt value otherwise; text longer than 50 characters shows
\* as its first 50 characters followed by the ellipsis, shorter text unchanged.
C10_AltText ==
    Extracted("Images") =>
        /\ Len(shown) = Cardinality(ConsideredWithSrc)
        /\ \A k \in 1..Len(shown) :
              LET img == soup[Nth(ConsideredWithSrc, k)]
                  text == IF "alt" \in DOMAIN img.attrs THEN img.attrs["alt"]
                          ELSE NoAltText
                  cap == shown[k].caption
              IN  IF Len(text) <= CaptionCap
                  THEN cap = text
                  ELSE /\ Len(cap) = CaptionCap + Len(Ellipsis)
                       /\ \A i \in 1..CaptionCap : cap[i] = text[i]
                       /\ \A i \in 1..Len(Ellipsis) : cap[CaptionCap + i] = "."

\* C10 witness: one page shows the placeholder, a 50-character alt unchanged,
\* and a 51-character alt cut to 50 characters plus the ellipsis
C10_Witness ==
    /\ Extracted("Images")
    /\ \E k \in 1..Len(shown) : shown[k].caption = NoAltText
    /\ \E k \in 1..Len(shown) : shown[k].caption = LongAlt(CaptionCap)
    /\ \E k \in 1..Len(shown) : shown[k].caption = LongAlt(CaptionCap) \o Ellipsis

====
